---- MODULE Spec2Model ----
(***************************************************************************)
(* State-space recursion of src/src/ssfun.cpp: ssfitter, ssfitterbackcast, *)
(* ssforecaster, sserrorer and ssoptimizer.                                *)
(*                                                                         *)
(* Doubles are modelled as exact rationals extended with NaN, +Inf, -Inf   *)
(* and R's NA_REAL (IEEE rules for the non-finite values; rounding and the *)
(* sign of zero are not modelled).  Armadillo's uword index arithmetic is  *)
(* modelled at its 32-bit width as two 16-bit limbs.                       *)
(***************************************************************************)
EXTENDS Integers, Naturals, Sequences, FiniteSets, TLC

(***************************************************************************)
(* Doubles                                                                 *)
(***************************************************************************)
RECURSIVE GCD(_, _)
GCD(a, b) == IF b = 0 THEN a ELSE GCD(b, a % b)

Abs(n) == IF n < 0 THEN -n ELSE n

\* a finite double n/d in lowest terms, d > 0
Fin(n, d) ==
    LET s == IF d < 0 THEN -1 ELSE 1
        g == GCD(Abs(n), Abs(d))
    IN [k |-> "fin", n |-> (s * n) \div g, d |-> (s * d) \div g]

Int2D(n) == [k |-> "fin", n |-> n, d |-> 1]
NaN  == [k |-> "nan",  n |-> 0, d |-> 1]
PInf == [k |-> "pinf", n |-> 0, d |-> 1]
NInf == [k |-> "ninf", n |-> 0, d |-> 1]
\* NA_REAL: R's missing value, a NaN with a payload
NA_REAL == [k |-> "na", n |-> 0, d |-> 1]
Zero == Int2D(0)
One  == Int2D(1)

IsFinite(x) == x.k = "fin"
IsNaNish(x) == x.k \in {"nan", "na"}
IsInf(x) == x.k \in {"pinf", "ninf"}
\* sign of a non-NaN double: -1, 0, 1
Sign(x) ==
    CASE x.k = "pinf" -> 1
      [] x.k = "ninf" -> -1
      [] OTHER -> IF x.n > 0 THEN 1 ELSE IF x.n < 0 THEN -1 ELSE 0
InfOf(s) == IF s > 0 THEN PInf ELSE NInf

DNeg(x) ==
    CASE x.k = "fin" -> [k |-> "fin", n |-> -x.n, d |-> x.d]
      [] x.k = "pinf" -> NInf
      [] x.k = "ninf" -> PInf
      [] OTHER -> NaN

DAdd(x, y) ==
    CASE IsNaNish(x) \/ IsNaNish(y) -> NaN
      [] IsInf(x) /\ IsInf(y) -> IF x.k = y.k THEN x ELSE NaN
      [] IsInf(x) -> x
      [] IsInf(y) -> y
      [] OTHER -> LET g == GCD(x.d, y.d)
                  IN Fin(x.n * (y.d \div g) + y.n * (x.d \div g), x.d * (y.d \div g))

DSub(x, y) == DAdd(x, DNeg(y))

DMul(x, y) ==
    CASE IsNaNish(x) \/ IsNaNish(y) -> NaN
      [] IsInf(x) \/ IsInf(y) ->
            IF Sign(x) * Sign(y) = 0 THEN NaN ELSE InfOf(Sign(x) * Sign(y))
      [] OTHER -> LET g == GCD(Abs(x.n), y.d)
                      h == GCD(Abs(y.n), x.d)
                  IN Fin((x.n \div g) * (y.n \div h), (x.d \div h) * (y.d \div g))

DDiv(x, y) ==
    CASE IsNaNish(x) \/ IsNaNish(y) -> NaN
      [] IsInf(x) /\ IsInf(y) -> NaN
      [] IsInf(x) -> IF Sign(y) < 0 THEN DNeg(x) ELSE x
      [] IsInf(y) -> Zero
      [] y.n = 0 -> IF x.n = 0 THEN NaN ELSE InfOf(Sign(x))
      [] OTHER -> LET g == GCD(Abs(x.n), Abs(y.n))
                      h == GCD(y.d, x.d)
                  IN Fin((x.n \div g) * (y.d \div h), (x.d \div h) * (y.n \div g))

DAbs(x) ==
    CASE x.k = "fin" -> [k |-> "fin", n |-> Abs(x.n), d |-> x.d]
      [] IsInf(x) -> PInf
      [] OTHER -> NaN

\* sum of a sequence of doubles, left to right
RECURSIVE DSum(_)
DSum(s) == IF s = <<>> THEN Zero ELSE DAdd(DSum(SubSeq(s, 1, Len(s) - 1)), s[Len(s)])

\* dot product of two equally long sequences
Dot(a, b) == DSum([q \in 1..Len(a) |-> DMul(a[q], b[q])])

\* matrix (sequence of rows) times column vector
MatVec(M, x) == [r \in 1..Len(M) |-> Dot(M[r], x)]

(***************************************************************************)
(* arma::uword, 32 bits, as <<high limb, low limb>>                        *)
(***************************************************************************)
Limb == 65536

UW(n) == <<(n \div Limb) % Limb, n % Limb>>

UWAdd(a, b) ==
    LET lo == a[2] + b[2]
        hi == a[1] + b[1] + (lo \div Limb)
    IN <<hi % Limb, lo % Limb>>

UWSub(a, b) ==
    LET lo == a[2] - b[2]
        borrow == IF lo < 0 THEN 1 ELSE 0
        hi == a[1] - b[1] - borrow
    IN <<hi % Limb, lo % Limb>>

\* a uword used as an element index into an array of n elements:
\* its value when it is inside the array, -1 when it is out of bounds
UWIndex(a, n) == IF a[1] = 0 /\ a[2] < n THEN a[2] ELSE -1

(***************************************************************************)
(* Bounds of the input space                                               *)
(***************************************************************************)
MaxComp == 2
MaxLag == 2
MaxObs == 3

(***************************************************************************)
(* Matrices.  A state history (arma::mat matrixxt) is kept as Armadillo    *)
(* keeps it: one column-major array, element (row r, component k) at       *)
(* position k * n_rows + r, positions and rows and components 0-based.     *)
(* Vectors and the read-only matrices are sequences (of rows).             *)
(***************************************************************************)
SeqMax(s) == CHOOSE m \in {s[q] : q \in 1..Len(s)} : \A q \in 1..Len(s) : s[q] <= m

NElem(xt) == Cardinality(DOMAIN xt)

At(xt, nrows, r, k) == xt[k * nrows + r]

\* positions of the non-finite elements (find_nonfinite)
FindNonfinite(xt) == {p \in DOMAIN xt : ~IsFinite(xt[p])}

(***************************************************************************)
(* Lag-index resolution, ssfitter lines 20-35 (the same statements are in  *)
(* ssfitterbackcast and ssforecaster).  lagsIn is the caller's lag set.    *)
(***************************************************************************)
\* lags = maxlag - lags; lags(i) = lags(i) + rows * i for i >= 1
LagOffsetsShifted(lagsIn, nrows) ==
    [q \in 1..Len(lagsIn) |->
        UWAdd(UWSub(UW(SeqMax(lagsIn)), UW(lagsIn[q])), UW(nrows * q))]

LagOffsets(lagsIn, nrows) ==
    [q \in 1..Len(lagsIn) |->
        LET d == UWSub(UW(SeqMax(lagsIn)), UW(lagsIn[q]))
        IN IF q = 1 THEN d ELSE UWAdd(d, UW(nrows * (q - 1)))]

\* the intermediate lags - maxlag of "lagrows = lags - maxlag + i"
LagMinusMax(lagsIn, nrows) ==
    [q \in 1..Len(lagsIn) |-> UWSub(LagOffsets(lagsIn, nrows)[q], UW(SeqMax(lagsIn)))]

\* lagrows = lags - maxlag + i
LagRows(lagsIn, nrows, i) ==
    [q \in 1..Len(lagsIn) |-> UWAdd(LagMinusMax(lagsIn, nrows)[q], UW(i))]

\* matrixxt(lagrows): the gather, bounds-checked by Armadillo
GatherOK(xt, lr) == \A q \in 1..Len(lr) : UWIndex(lr[q], NElem(xt)) # -1
Gather(xt, lr) ==
    [q \in 1..Len(lr) |->
        IF UWIndex(lr[q], NElem(xt)) = -1 THEN NaN ELSE xt[UWIndex(lr[q], NElem(xt))]]

(***************************************************************************)
(* One filter step (ssfitter lines 37-40; also the passes of               *)
(* ssfitterbackcast).  a: the call's arguments, x: the gathered lagged     *)
(* state, t = i - maxlag: the period.                                      *)
(***************************************************************************)
\* matrixw.row(t) * matrixxt(lagrows) + wex.row(t) * trans(xtreg.row(t))
Fitted(a, x, t) == DAdd(Dot(a.matrixw[t + 1], x), Dot(a.wex[t + 1], a.xtreg[t + 1]))

\* matrixF * matrixxt(lagrows) + matg / trans(matrixv.row(t)) * materrors(t)
NewStateRowZeroGain(a, x, t, e) == MatVec(a.matrixF, x)

NewStateRowUnitGain(a, x, t, e) ==
    [q \in 1..Len(x) |-> DAdd(MatVec(a.matrixF, x)[q], DMul(DDiv(One, a.matrixv[t + 1][q]), e))]

NewStateRow(a, x, t, e) ==
    [q \in 1..Len(x) |->
        DAdd(MatVec(a.matrixF, x)[q], DMul(DDiv(a.matg[q], a.matrixv[t + 1][q]), e))]

\* matrixxt.row(i) = trans(row): element q of the row goes to position (q - 1) * nrows + i
RECURSIVE SetRowFrom(_, _, _, _, _)
SetRowFrom(xt, nrows, i, row, q) ==
    IF q > Len(row) THEN xt
    ELSE SetRowFrom([xt EXCEPT ![(q - 1) * nrows + i] = row[q]], nrows, i, row, q + 1)

SetRow(xt, nrows, i, row) == SetRowFrom(xt, nrows, i, row, 1)

\* the substitution reading the following position in every pass
NeighbourNext(p, dir) == UWAdd(UW(p), UW(1))

\* the position find_nonfinite(matrixxt) + dir, as a uword, of element p
Neighbour(p, dir) == IF dir < 0 THEN UWSub(UW(p), UW(1)) ELSE UWAdd(UW(p), UW(1))

\* does matrixxt.elem(find_nonfinite(matrixxt) + dir) index outside the array
SubstOutOfBounds(xt, dir) ==
    \E p \in FindNonfinite(xt) : UWIndex(Neighbour(p, dir), NElem(xt)) = -1

\* matrixxt.elem(find_nonfinite(matrixxt)) = matrixxt.elem(find_nonfinite(matrixxt) + dir);
\* the right-hand side is copied before the assignment (same matrix on both
\* sides); junk is what an unchecked out-of-bounds read returns
Substitute(xt, dir, junk) ==
    IF FindNonfinite(xt) = {} THEN xt
    ELSE [p \in DOMAIN xt |->
            IF IsFinite(xt[p]) THEN xt[p]
            ELSE LET q == UWIndex(Neighbour(p, dir), NElem(xt))
                 IN IF q = -1 THEN junk ELSE xt[q]]

\* what an unchecked out-of-bounds read may return
JunkVals == {Int2D(7), NaN}

\* The outcomes of one loop body on state history xt (nr rows) at row i with
\* gather positions lr: withObs tells the filter body (fitted value, residual,
\* state update with the residual) from the transition-only body; dir is -1
\* for a forward pass and +1 for a backward one.  Armadillo checks element
\* indices unless built with ARMA_NO_DEBUG: an index outside the array raises
\* (raised) or, unchecked, reads whatever is there (oob).
StepOutcomes(a, xt, nr, lr, i, t, withObs, dir, yfit, errs) ==
    IF ~GatherOK(xt, lr)
    THEN {[raised |-> TRUE, oob |-> FALSE, xt |-> xt, yfit |-> yfit, errs |-> errs]}
    ELSE IF withObs /\ (t < 0 \/ t >= Len(yfit))
    THEN {[raised |-> TRUE, oob |-> FALSE, xt |-> xt, yfit |-> yfit, errs |-> errs]}
         \cup {[raised |-> FALSE, oob |-> TRUE,
                xt |-> Substitute(SetRow(xt, nr, i, [q \in 1..Len(lr) |-> junk]), dir, junk),
                yfit |-> yfit, errs |-> errs] : junk \in JunkVals}
    ELSE LET x == Gather(xt, lr)
             f == Fitted(a, x, t)
             e == DSub(a.matyt[t + 1], f)
             xt1 == SetRow(xt, nr, i, IF withObs THEN NewStateRow(a, x, t, e) ELSE MatVec(a.matrixF, x))
             yf1 == IF withObs THEN [yfit EXCEPT ![t + 1] = f] ELSE yfit
             er1 == IF withObs THEN [errs EXCEPT ![t + 1] = e] ELSE errs
         IN IF SubstOutOfBounds(xt1, dir)
            THEN {[raised |-> TRUE, oob |-> FALSE, xt |-> xt1, yfit |-> yf1, errs |-> er1]}
                 \cup {[raised |-> FALSE, oob |-> TRUE, xt |-> Substitute(xt1, dir, junk),
                        yfit |-> yf1, errs |-> er1] : junk \in JunkVals}
            ELSE {[raised |-> FALSE, oob |-> FALSE, xt |-> Substitute(xt1, dir, NaN),
                   yfit |-> yf1, errs |-> er1]}

(***************************************************************************)
(* Arguments of a call.  The read-only matrices are built from a profile   *)
(* pr, a record of choices, for a lag set and a number of observations.    *)
(***************************************************************************)
\* transition: "I" identity, "D" upper triangular with 1/2 on the diagonal,
\* "U" upper triangular of ones, "F" identity with +Inf in the first entry
MkF(nc, c) ==
    [r \in 1..nc |-> [q \in 1..nc |->
        CASE c = "I" -> IF q = r THEN One ELSE Zero
          [] c = "D" -> IF q = r THEN Fin(1, 2) ELSE IF q > r THEN One ELSE Zero
          [] c = "U" -> IF q >= r THEN One ELSE Zero
          [] OTHER -> IF q = 1 /\ r = 1 THEN PInf ELSE IF q = r THEN One ELSE Zero]]

\* measurement: "unit" rows of ones, "ramp" row t, component q holds t + q,
\* "nan" ones with NaN for the first component in period 0
MkW(nc, n, c) ==
    [t \in 1..n |-> [q \in 1..nc |->
        CASE c = "unit" -> One
          [] c = "nan" -> IF t = 1 /\ q = 1 THEN NaN ELSE One
          [] OTHER -> Int2D(t - 1 + q)]]

\* scale: "ones"; "zero" has 0 in period 0; "nan" has NaN in period 0
MkV(nc, n, c) ==
    [t \in 1..n |-> [q \in 1..nc |->
        IF t = 1 /\ c = "zero" THEN Zero ELSE IF t = 1 /\ c = "nan" THEN NaN ELSE One]]

\* persistence: "0", "3/10", "1", "e1" (1 for the first component, 0 for the
\* others), "inf"
MkG(nc, c) ==
    [q \in 1..nc |->
        CASE c = "0" -> Zero
          [] c = "3/10" -> Fin(3, 10)
          [] c = "1" -> One
          [] c = "e1" -> IF q = 1 THEN One ELSE Zero
          [] OTHER -> PInf]

\* observed: "ramp" 1, 2, 3, ...; "nan" the same with NaN in period 0
MkY(n, c) == [t \in 1..n |-> IF t = 1 /\ c = "nan" THEN NaN ELSE Int2D(t)]

\* exogenous regressors (one column): "none" zeros, "on" wex[t] = t + 1, xtreg[t] = 2
MkWex(n, c) == [t \in 1..n |-> << IF c = "none" THEN Zero ELSE Int2D(t) >>]
MkXtreg(n, c) == [t \in 1..n |-> << IF c = "none" THEN Zero ELSE Int2D(2) >>]

\* a state history of nr rows: "ramp" holds p + 1 at position p, "zero" zeros;
\* bad is a position set to the non-finite value badv (-1: none)
MkXt(nc, nr, c, bad, badv) ==
    [p \in 0..(nc * nr - 1) |->
        IF p = bad THEN badv ELSE IF c = "zero" THEN Zero ELSE Int2D(p + 1)]

MkArgs(lagsIn, n, pr, xt) ==
    [matrixxt |-> xt,
     lags |-> lagsIn,
     matrixF |-> MkF(Len(lagsIn), pr.F),
     matrixw |-> MkW(Len(lagsIn), n, pr.w),
     matrixv |-> MkV(Len(lagsIn), n, pr.v),
     matyt |-> MkY(n, pr.y),
     matg |-> MkG(Len(lagsIn), pr.g),
     wex |-> MkWex(n, pr.x),
     xtreg |-> MkXtreg(n, pr.x),
     hor |-> pr.hor,
     CFtype |-> pr.CFtype,
     backcasting |-> pr.backcasting,
     normalize |-> pr.normalize]


LagSets == UNION {[1..K -> 1..MaxLag] : K \in 1..MaxComp}

ZeroVec(n) == [t \in 1..n |-> Zero]

(***************************************************************************)
(* The state of a call                                                     *)
(***************************************************************************)
VARIABLES
    entry,      \* the routine called: "ssfitter", "ssfitterbackcast", "sserrorer", "ssoptimizer"
    pc,         \* position in the running routine; "done" returned, "raised" an exception left it
    args,       \* the arguments, read-only
    matrixxt,   \* the routine's copy of the state history, column-major
    nrows,      \* matrixxt.n_rows
    matyfit,    \* fitted values
    materrors,  \* one-step residuals
    i,          \* the row loop's counter
    j,          \* ssfitterbackcast's cycle counter
    lagrows,    \* the gather positions last computed
    oobRead,    \* an unchecked read outside matrixxt has happened
    passlog,    \* the rows visited so far, as <<cycle, pass, row>>
    errmatrix,  \* sserrorer's materrors: obs rows of hor forecast errors
    hh,         \* sserrorer's hh, the horizon of the running ssforecaster call
    matrixxtnew, \* ssforecaster's state buffer, column-major, hh + maxlag rows
    matyfor,    \* ssforecaster's forecasts
    fi,         \* ssforecaster's loop counter
    CFres,      \* ssoptimizer's result
    stream_err2, \* the stream Armadillo's set_stream_err2 last installed
    errorerCalls \* how often sserrorer has been called

errvars == <<errmatrix, hh, matrixxtnew, matyfor, fi>>
optvars == <<CFres, stream_err2, errorerCalls>>
vars == <<entry, pc, args, matrixxt, nrows, matyfit, materrors, i, j, lagrows, oobRead, passlog,
          errvars, optvars>>

K == Len(args.lags)
obs == Len(args.matyt)
maxlag == SeqMax(args.lags)

obsall == NElem(args.matrixxt) \div K

TypeOK ==
    /\ entry \in {"ssfitter", "ssfitterbackcast", "sserrorer", "ssoptimizer"}
    /\ nrows * K = NElem(matrixxt)
    /\ Len(matyfit) = obs /\ Len(materrors) = obs

(***************************************************************************)
(* ssfitter                                                                *)
(***************************************************************************)
\* lines 17-31
FitEnter ==
    /\ IF entry = "ssoptimizer" THEN pc = "opt_fit" /\ ~args.backcasting
                                ELSE pc = "call" /\ entry = "ssfitter"
    /\ pc' = "fit"
    /\ i' = maxlag
    /\ matyfit' = ZeroVec(obs)
    /\ materrors' = ZeroVec(obs)
    /\ UNCHANGED <<errvars, optvars, entry, args, matrixxt, nrows, j, lagrows, oobRead, passlog>>

\* one iteration of the loop of lines 33-41
FitIter ==
    /\ pc = "fit" /\ i < nrows
    /\ lagrows' = LagRows(args.lags, nrows, i)
    /\ passlog' = Append(passlog, <<0, "fit", i>>)
    /\ \E o \in StepOutcomes(args, matrixxt, nrows, lagrows', i, i - maxlag, TRUE, -1, matyfit, materrors) :
          /\ matrixxt' = o.xt
          /\ matyfit' = o.yfit
          /\ materrors' = o.errs
          /\ oobRead' = (oobRead \/ o.oob)
          /\ pc' = IF o.raised THEN "raised" ELSE pc
          /\ i' = IF o.raised THEN i ELSE i + 1
    /\ UNCHANGED <<errvars, optvars, entry, args, nrows, j>>

\* line 43
FitReturn ==
    /\ pc = "fit" /\ i >= nrows
    /\ pc' = IF entry = "ssoptimizer" THEN "opt_loss" ELSE "done"
    /\ UNCHANGED <<errvars, optvars, entry, args, matrixxt, nrows, matyfit, materrors, i, j, lagrows, oobRead, passlog>>

(***************************************************************************)
(* ssfitterbackcast                                                        *)
(***************************************************************************)
\* the cycle loop runs while j < NCycles (line 107); the backward passes run
\* while j < BackCycles (line 127)
NCycles == 4
BackCycles == 3

obsallnew == obsall + maxlag

\* matrixxt.resize(r, n_cols): elements and layout kept, new rows zero
Resize(xt, nc, nr, r) ==
    [p \in 0..(nc * r - 1) |->
        IF p % r < nr THEN xt[(p \div r) * nr + (p % r)] ELSE Zero]

\* matrixxt.set_size(r, n_cols): Armadillo does not preserve the elements.
\* When it keeps the allocation, the new matrix is the leading r * n_cols
\* elements of the old column-major array; when it takes other memory, the
\* elements are whatever that memory holds (here: one junk value throughout).
SetSize(xt, nc, nr, r) ==
    {[p \in 0..(nc * r - 1) |-> xt[p]]}
        \cup {[p \in 0..(nc * r - 1) |-> junk] : junk \in JunkVals}

\* backlags(i) = obsallnew * (i + 1) - lags(i), after lags = maxlag - lags (lines 90-95)
BackLags(lagsIn, nr) ==
    [q \in 1..Len(lagsIn) |->
        UWSub(UW(nr * q), UWSub(UW(SeqMax(lagsIn)), UW(lagsIn[q])))]

\* lagrows = backlags + i - obsall (lines 130, 139)
BackLagRows(lagsIn, nr, nall, row) ==
    [q \in 1..Len(lagsIn) |-> UWSub(UWAdd(BackLags(lagsIn, nr)[q], UW(row)), UW(nall))]

\* the control with the backward passes run in every cycle
RECURSIVE SeekBackwardAlways(_, _, _)
SeekBackwardAlways(jj, pass, ii) ==
    CASE pass = "cycle" ->
            IF jj < NCycles THEN SeekBackwardAlways(jj, "bc_fwd", maxlag)
            ELSE [j |-> jj, pc |-> "bc_trunc", i |-> ii]
      [] pass = "bc_fwd" ->
            IF ii < obsall THEN [j |-> jj, pc |-> pass, i |-> ii]
            ELSE SeekBackwardAlways(jj, "bc_tail", obsall)
      [] pass = "bc_tail" ->
            IF ii < obsallnew THEN [j |-> jj, pc |-> pass, i |-> ii]
            ELSE SeekBackwardAlways(jj, "bc_back", obsall - 1)
      [] pass = "bc_back" ->
            IF ii >= maxlag THEN [j |-> jj, pc |-> pass, i |-> ii]
            ELSE SeekBackwardAlways(jj, "bc_head", maxlag - 1)
      [] OTHER ->
            IF ii >= 0 THEN [j |-> jj, pc |-> pass, i |-> ii]
            ELSE SeekBackwardAlways(jj + 1, "cycle", ii)

\* Control of lines 107-145: from loop `pass` of cycle jj with counter ii, the
\* loop body that runs next, or "bc_trunc" when the cycles are over.
RECURSIVE Seek(_, _, _)
Seek(jj, pass, ii) ==
    CASE pass = "cycle" ->
            IF jj < NCycles THEN Seek(jj, "bc_fwd", maxlag)
            ELSE [j |-> jj, pc |-> "bc_trunc", i |-> ii]
      [] pass = "bc_fwd" ->
            IF ii < obsall THEN [j |-> jj, pc |-> pass, i |-> ii]
            ELSE Seek(jj, "bc_tail", obsall)
      [] pass = "bc_tail" ->
            IF ii < obsallnew THEN [j |-> jj, pc |-> pass, i |-> ii]
            ELSE IF jj < BackCycles THEN Seek(jj, "bc_back", obsall - 1)
            ELSE Seek(jj + 1, "cycle", ii)
      [] pass = "bc_back" ->
            IF ii >= maxlag THEN [j |-> jj, pc |-> pass, i |-> ii]
            ELSE Seek(jj, "bc_head", maxlag - 1)
      [] OTHER ->
            IF ii >= 0 THEN [j |-> jj, pc |-> pass, i |-> ii]
            ELSE Seek(jj + 1, "cycle", ii)

\* lines 82-104
BackEnter ==
    /\ IF entry = "ssoptimizer" THEN pc = "opt_fit" /\ args.backcasting
                                ELSE pc = "call" /\ entry = "ssfitterbackcast"
    /\ matrixxt' = Resize(matrixxt, K, nrows, obsallnew)
    /\ nrows' = obsallnew
    /\ matyfit' = ZeroVec(obs)
    /\ materrors' = ZeroVec(obs)
    /\ LET s == Seek(0, "cycle", 0)
       IN pc' = s.pc /\ i' = s.i /\ j' = s.j
    /\ UNCHANGED <<errvars, optvars, entry, args, lagrows, oobRead, passlog>>

\* one loop body of ssfitterbackcast, then control up to the next body
BackBody(pass, lr, withObs, dir, step) ==
    /\ pc = pass
    /\ lagrows' = lr
    /\ passlog' = Append(passlog, <<j, pass, i>>)
    /\ \E o \in StepOutcomes(args, matrixxt, nrows, lr, i, i - maxlag, withObs, dir, matyfit, materrors) :
          /\ matrixxt' = o.xt
          /\ matyfit' = o.yfit
          /\ materrors' = o.errs
          /\ oobRead' = (oobRead \/ o.oob)
          /\ LET s == Seek(j, pass, i + step)
             IN /\ pc' = IF o.raised THEN "raised" ELSE s.pc
                /\ i' = IF o.raised THEN i ELSE s.i
                /\ j' = IF o.raised THEN j ELSE s.j
    /\ UNCHANGED <<errvars, optvars, entry, args, nrows>>

\* lines 110-117: forward filter pass
BackFwd == BackBody("bc_fwd", LagRows(args.lags, nrows, i), TRUE, -1, 1)

\* lines 119-124: forward propagation over the trailing rows
BackTail == BackBody("bc_tail", LagRows(args.lags, nrows, i), FALSE, -1, 1)

\* lines 129-136: backward filter pass
BackBack == BackBody("bc_back", BackLagRows(args.lags, nrows, obsall, i), TRUE, 1, -1)

\* lines 138-143: backward propagation over the leading rows
BackHead == BackBody("bc_head", BackLagRows(args.lags, nrows, obsall, i), FALSE, 1, -1)

\* lines 147-149
BackTruncate ==
    /\ pc = "bc_trunc"
    /\ matrixxt' \in SetSize(matrixxt, K, nrows, obsall)
    /\ nrows' = obsall
    /\ pc' = IF entry = "ssoptimizer" THEN "opt_loss" ELSE "done"
    /\ UNCHANGED <<errvars, optvars, entry, args, matyfit, materrors, i, j, lagrows, oobRead, passlog>>

(***************************************************************************)
(* ssforecaster and sserrorer                                              *)
(***************************************************************************)
Min(a, b) == IF a < b THEN a ELSE b

\* M.rows(a, b) of a matrix kept as a sequence of rows, a and b 0-based
SubRows(M, a, b) == SubSeq(M, a + 1, b + 1)

\* matrixxt.rows(a, b) of a column-major state history
XtRows(xt, nc, nr, a, b) ==
    [p \in 0..(nc * (b - a + 1) - 1) |->
        xt[(p \div (b - a + 1)) * nr + a + (p % (b - a + 1))]]

\* lines 191 and 198: a zero buffer of r rows whose first m rows are the seed's
SeedBuffer(seed, nc, m, r) ==
    [p \in 0..(nc * r - 1) |-> IF p % r < m THEN seed[(p \div r) * m + (p % r)] ELSE Zero]

\* the arguments sserrorer passes to ssforecaster from origin row (lines 243-244)
ForecastArgsFromStart(a, t, h) ==
    [matrixF |-> a.matrixF,
     matrixw |-> SubRows(a.matrixw, 0, h - 1),
     wex |-> SubRows(a.wex, 0, h - 1),
     xtreg |-> SubRows(a.xtreg, 0, h - 1)]

\* the rows counted back from the end of the sample
ForecastArgsFromEnd(a, t, h) ==
    [matrixF |-> a.matrixF,
     matrixw |-> SubRows(a.matrixw, Len(a.matrixw) - h, Len(a.matrixw) - 1),
     wex |-> SubRows(a.wex, Len(a.wex) - h, Len(a.wex) - 1),
     xtreg |-> SubRows(a.xtreg, Len(a.xtreg) - h, Len(a.xtreg) - 1)]

ForecastArgs(a, t, h) ==
    [matrixF |-> a.matrixF,
     matrixw |-> SubRows(a.matrixw, t, t + h - 1),
     wex |-> SubRows(a.wex, t, t + h - 1),
     xtreg |-> SubRows(a.xtreg, t, t + h - 1)]

MultiStep == {"GV", "TLV", "TV", "hsteps"}

\* the branch of the if-chain of lines 301-338 a CFtype string takes
LossBranchCaseless(c) ==
    CASE c \in {"GV", "gv"} -> "GV"
      [] c \in {"TLV", "tlv"} -> "TLV"
      [] c \in {"TV", "tv"} -> "TV"
      [] c \in {"hsteps", "HSTEPS"} -> "hsteps"
      [] c \in {"MSE", "mse"} -> "MSE"
      [] c \in {"MAE", "mae"} -> "MAE"
      [] OTHER -> "else"

LossBranch(c) ==
    IF c \in {"GV", "TLV", "TV", "hsteps", "MSE", "MAE"} THEN c ELSE "else"

\* lines 233-238
ErrEnter ==
    /\ IF entry = "ssoptimizer" THEN pc = "opt_loss" /\ LossBranch(args.CFtype) \in MultiStep
                                ELSE pc = "call" /\ entry = "sserrorer"
    /\ errmatrix' = [t \in 1..obs |-> [h \in 1..args.hor |-> NA_REAL]]
    /\ i' = maxlag
    /\ pc' = "err"
    /\ errorerCalls' = errorerCalls + 1
    /\ UNCHANGED <<entry, args, matrixxt, nrows, matyfit, materrors, j, lagrows, oobRead, passlog,
                   hh, matrixxtnew, matyfor, fi, CFres, stream_err2>>

\* lines 240-244 up to the call, and ssforecaster's lines 185-198
ErrCall ==
    /\ pc = "err" /\ i < obs + maxlag
    /\ hh' = Min(args.hor, obs + maxlag - i)
    /\ IF hh' < 1 \/ i - 1 >= nrows
       THEN pc' = "raised" /\ UNCHANGED <<matrixxtnew, matyfor, fi>>
       ELSE /\ matrixxtnew' = SeedBuffer(XtRows(matrixxt, K, nrows, i - maxlag, i - 1), K, maxlag, hh' + maxlag)
            /\ matyfor' = ZeroVec(hh')
            /\ fi' = maxlag
            /\ pc' = "fc"
    /\ UNCHANGED <<entry, args, matrixxt, nrows, matyfit, materrors, i, j, lagrows, oobRead, passlog,
                   errmatrix, optvars>>

\* one iteration of ssforecaster's loop, lines 201-205
FcIter ==
    /\ pc = "fc" /\ fi < hh + maxlag
    /\ lagrows' = LagRows(args.lags, hh + maxlag, fi)
    /\ IF ~GatherOK(matrixxtnew, lagrows')
       THEN pc' = "raised" /\ UNCHANGED <<matrixxtnew, matyfor, fi>>
       ELSE /\ matrixxtnew' = SetRow(matrixxtnew, hh + maxlag, fi,
                                     MatVec(args.matrixF, Gather(matrixxtnew, lagrows')))
            /\ matyfor' = [matyfor EXCEPT ![fi - maxlag + 1] =
                              Fitted(ForecastArgs(args, i - maxlag, hh), Gather(matrixxtnew', lagrows'),
                                     fi - maxlag)]
            /\ fi' = fi + 1
            /\ pc' = pc
    /\ UNCHANGED <<entry, args, matrixxt, nrows, matyfit, materrors, i, j, oobRead, passlog,
                   errmatrix, hh, optvars>>

\* ssforecaster returns (line 207) and sserrorer stores the row (line 242)
StoreErrorsFullRow(row, t) ==
    [h \in 1..Len(row) |-> DSub(args.matyt[Min(t + h, obs)], matyfor[Min(h, hh)])]

StoreErrors(row, t) ==
    [h \in 1..Len(row) |-> IF h <= hh THEN DSub(args.matyt[t + h], matyfor[h]) ELSE row[h]]

FcReturn ==
    /\ pc = "fc" /\ fi >= hh + maxlag
    /\ errmatrix' = [errmatrix EXCEPT ![i - maxlag + 1] = StoreErrors(@, i - maxlag)]
    /\ i' = i + 1
    /\ pc' = "err"
    /\ UNCHANGED <<entry, args, matrixxt, nrows, matyfit, materrors, j, lagrows, oobRead, passlog,
                   hh, matrixxtnew, matyfor, fi, optvars>>

\* line 247
ErrReturn ==
    /\ pc = "err" /\ i >= obs + maxlag
    /\ pc' = IF entry = "ssoptimizer" THEN "opt_cost" ELSE "done"
    /\ UNCHANGED <<entry, args, matrixxt, nrows, matyfit, materrors, i, j, lagrows, oobRead, passlog,
                   errvars, optvars>>

(***************************************************************************)
(* ssoptimizer.  A result is [form |-> "value", v |-> double] or, where a   *)
(* square root, a logarithm or an eigenvalue enters, the form and its      *)
(* exact arguments.                                                        *)
(***************************************************************************)
Value(x) == [form |-> "value", v |-> x]

Mean(v) == DDiv(DSum(v), Int2D(Len(v)))
Squares(v) == [q \in 1..Len(v) |-> DMul(v[q], v[q])]

\* the same number of rows of column c taken from the bottom of the matrix
ColumnPartFromLast(M, c, r0, r1) == [q \in 1..(r1 - r0 + 1) |-> M[Len(M) - q + 1][c + 1]]

\* materrors.submat(r0, c, r1, c) as a sequence, indices 0-based
ColumnPart(M, c, r0, r1) == [q \in 1..(r1 - r0 + 1) |-> M[r0 + q][c + 1]]

\* lines 327-338: the losses of the one-step residuals
OneStepLoss(c, errs) ==
    CASE LossBranch(c) = "MSE" -> Value(Mean(Squares(errs)))
      [] LossBranch(c) = "MAE" -> Value(Mean([q \in 1..Len(errs) |-> DAbs(errs[q])]))
      [] OTHER -> [form |-> "mean_sqrt", of |-> [q \in 1..Len(errs) |-> DAbs(errs[q])]]

\* trans(E / normalize) * (E / normalize) / matobs of lines 305 and 308
Gram(E, ncol, normalize) ==
    [r \in 1..ncol |-> [c \in 1..ncol |->
        DDiv(DSum([q \in 1..Len(E) |-> DMul(DDiv(E[q][r], normalize), DDiv(E[q][c], normalize))]),
             Int2D(Len(E)))]]

\* lines 301-326: the losses of the rolling-origin errors E; eigOK tells
\* whether eig_sym succeeded
MultiStepLoss(c, E, nobs, hor, normalize, eigOK) ==
    CASE LossBranch(c) = "GV" ->
            [form |-> IF eigOK THEN "log_prod_eig_sym" ELSE "log_det",
             of |-> Gram(SubSeq(E, 1, nobs - hor + 1), hor, normalize),
             plus |-> <<hor, normalize>>]
      [] LossBranch(c) = "TLV" ->
            [form |-> "sum_log",
             of |-> [h \in 1..hor |-> Mean(Squares(ColumnPart(E, h - 1, 0, nobs - (h - 1) - 1)))]]
      [] LossBranch(c) = "TV" ->
            Value(DSum([h \in 1..hor |-> Mean(Squares(ColumnPart(E, h - 1, 0, nobs - (h - 1) - 1)))]))
      [] OTHER -> Value(Mean(Squares(ColumnPart(E, hor - 1, 0, nobs - hor))))

\* the entries <<row, column>> (0-based) of the error matrix that lines
\* 303-325 take: the resize to matobs rows (GV) and the submat bounds
LossReads(c, nobs, hor) ==
    CASE LossBranch(c) = "GV" -> (0..(nobs - hor)) \X (0..(hor - 1))
      [] LossBranch(c) \in {"TLV", "TV"} ->
            UNION {{<<r, h>> : r \in 0..(nobs - h - 1)} : h \in 0..(hor - 1)}
      [] OTHER -> {<<r, hor - 1>> : r \in 0..(nobs - hor)}

\* the stream set_stream_err2 installed, once ssoptimizer's local nullstream
\* (line 277) is destroyed at return
AfterReturn(stream) == IF stream = "nullstream" THEN "destroyed nullstream" ELSE stream

\* lines 277-291: the stream is redirected, then the fit is called
OptEnter ==
    /\ pc = "call" /\ entry = "ssoptimizer"
    /\ stream_err2' = "nullstream"
    /\ pc' = "opt_fit"
    /\ UNCHANGED <<entry, args, matrixxt, nrows, matyfit, materrors, i, j, lagrows, oobRead, passlog,
                   errvars, CFres, errorerCalls>>

\* lines 327-340
OptOneStep ==
    /\ pc = "opt_loss" /\ LossBranch(args.CFtype) \notin MultiStep
    /\ CFres' = OneStepLoss(args.CFtype, materrors)
    /\ stream_err2' = AfterReturn(stream_err2)
    /\ pc' = "done"
    /\ UNCHANGED <<entry, args, matrixxt, nrows, matyfit, materrors, i, j, lagrows, oobRead, passlog,
                   errvars, errorerCalls>>

\* lines 301-326 after sserrorer has returned, and line 340
OptMultiStep ==
    /\ pc = "opt_cost"
    /\ \E eigOK \in BOOLEAN :
          CFres' = MultiStepLoss(args.CFtype, errmatrix, obs, args.hor, args.normalize, eigOK)
    /\ stream_err2' = AfterReturn(stream_err2)
    /\ pc' = "done"
    /\ UNCHANGED <<entry, args, matrixxt, nrows, matyfit, materrors, i, j, lagrows, oobRead, passlog,
                   errvars, errorerCalls>>

(***************************************************************************)
(* Calls of ssfitter: every lag set, 1..MaxObs observations, a state       *)
(* history of obs + maxlag rows.                                           *)
(***************************************************************************)
NoLoss == [hor |-> 1, CFtype |-> "MSE", backcasting |-> FALSE, normalize |-> One]
NoResult == [form |-> "none"]

FitProfiles ==
    {[F |-> cF, w |-> cw, v |-> cv, g |-> cg, y |-> "ramp", x |-> cx] @@ NoLoss :
        cF \in {"I", "D"}, cw \in {"unit", "ramp"}, cv \in {"ones", "zero"},
        cg \in {"0", "3/10", "1"}, cx \in {"none", "on"}}

\* non-finite values in the transition, measurement, scale, persistence or
\* observed series
NonfiniteProfiles ==
    {[F |-> cF, w |-> cw, v |-> cv, g |-> cg, y |-> cy, x |-> "none"] @@ NoLoss :
        cF \in {"I", "F"}, cw \in {"unit", "nan"}, cv \in {"ones", "nan"},
        cg \in {"3/10", "inf"}, cy \in {"ramp", "nan"}}

\* the scalar scenario: lag 1, transition 1, measurement 1, persistence 0.3,
\* scale 1, observed 1..5, initial state 0
ScenarioSeries == <<1, 2, 3, 4, 5>>
ScenarioObs == Len(ScenarioSeries)
ScenarioProfile == [F |-> "I", w |-> "unit", v |-> "ones", g |-> "3/10", y |-> "ramp", x |-> "none"] @@ NoLoss

Start(e, a) ==
    /\ entry = e
    /\ pc = "call"
    /\ args = a
    /\ matrixxt = a.matrixxt
    /\ nrows = NElem(a.matrixxt) \div Len(a.lags)
    /\ matyfit = ZeroVec(Len(a.matyt))
    /\ materrors = ZeroVec(Len(a.matyt))
    /\ i = 0
    /\ j = 0
    /\ lagrows = <<>>
    /\ oobRead = FALSE
    /\ passlog = <<>>
    /\ errmatrix = <<>>
    /\ hh = 0
    /\ matrixxtnew = <<>>
    /\ matyfor = <<>>
    /\ fi = 0
    /\ CFres = NoResult
    /\ stream_err2 = "default"
    /\ errorerCalls = 0

InitFit ==
    \/ \E l \in LagSets, n \in 1..MaxObs, pr \in FitProfiles, c \in {"ramp", "zero"} :
         Start("ssfitter", MkArgs(l, n, pr, MkXt(Len(l), n + SeqMax(l), c, -1, NaN)))
    \/ \E l \in LagSets, n \in 1..MaxObs, pr \in NonfiniteProfiles :
         Start("ssfitter", MkArgs(l, n, pr, MkXt(Len(l), n + SeqMax(l), "ramp", -1, NaN)))
    \/ \E l \in LagSets, n \in 1..MaxObs, bad \in 0..(MaxComp * (MaxObs + MaxLag)), badv \in {NaN, PInf} :
         /\ bad < Len(l) * (n + SeqMax(l))
         /\ Start("ssfitter", MkArgs(l, n, ScenarioProfile, MkXt(Len(l), n + SeqMax(l), "ramp", bad, badv)))
    \/ \E l \in LagSets, n \in 1..MaxObs, extra \in 1..MaxLag :
         Start("ssfitter", MkArgs(l, n, ScenarioProfile, MkXt(Len(l), n + SeqMax(l) + extra, "ramp", -1, NaN)))
    \/ Start("ssfitter", MkArgs(<<1>>, ScenarioObs, ScenarioProfile, MkXt(1, ScenarioObs + 1, "zero", -1, NaN)))

BackProfiles ==
    {[F |-> cF, w |-> "unit", v |-> cv, g |-> cg, y |-> "ramp", x |-> "on"] @@ NoLoss :
        cF \in {"I", "U"}, cv \in {"ones", "zero"}, cg \in {"0", "e1"}}

BackDefault == [F |-> "I", w |-> "unit", v |-> "ones", g |-> "e1", y |-> "ramp", x |-> "none"] @@ NoLoss

InitBack ==
    \/ \E l \in LagSets, n \in 1..MaxObs, pr \in BackProfiles :
         Start("ssfitterbackcast", MkArgs(l, n, pr, MkXt(Len(l), n + SeqMax(l), "ramp", -1, NaN)))
    \/ \E l \in LagSets, n \in 1..MaxObs, bad \in 0..(MaxComp * (MaxObs + MaxLag)), badv \in {NaN, PInf} :
         /\ bad < Len(l) * (n + SeqMax(l))
         /\ Start("ssfitterbackcast",
                  MkArgs(l, n, BackDefault, MkXt(Len(l), n + SeqMax(l), "ramp", bad, badv)))

NextBack == BackEnter \/ BackFwd \/ BackTail \/ BackBack \/ BackHead \/ BackTruncate

SpecBack == InitBack /\ [][NextBack]_vars

(***************************************************************************)
(* The fits as functions of the arguments (the outcome without a raise;    *)
(* with a finite state history there is exactly one).                      *)
(***************************************************************************)
PickOutcome(S) ==
    IF \E o \in S : ~o.raised THEN CHOOSE o \in S : ~o.raised ELSE CHOOSE o \in S : TRUE

RECURSIVE FitLoop(_, _, _, _, _)
FitLoop(a, xt, yfit, errs, row) ==
    LET nr == NElem(xt) \div Len(a.lags)
        o == PickOutcome(StepOutcomes(a, xt, nr, LagRows(a.lags, nr, row), row,
                                      row - SeqMax(a.lags), TRUE, -1, yfit, errs))
    IN IF row >= nr \/ o.raised THEN [xt |-> xt, yfit |-> yfit, errs |-> errs]
       ELSE CHOOSE r \in {FitLoop(a, u.xt, u.yfit, u.errs, row + 1) : u \in {o}} : TRUE

ssfitter(a) ==
    FitLoop(a, a.matrixxt, ZeroVec(Len(a.matyt)), ZeroVec(Len(a.matyt)), SeqMax(a.lags))

RECURSIVE BackLoop(_, _, _, _, _)
BackLoop(a, xt, yfit, errs, at) ==
    LET nr == NElem(xt) \div Len(a.lags)
        fwd == at.pc \in {"bc_fwd", "bc_tail"}
        lr == IF fwd THEN LagRows(a.lags, nr, at.i)
                     ELSE BackLagRows(a.lags, nr, nr - SeqMax(a.lags), at.i)
        o == PickOutcome(StepOutcomes(a, xt, nr, lr, at.i, at.i - SeqMax(a.lags),
                                      at.pc \in {"bc_fwd", "bc_back"},
                                      IF fwd THEN -1 ELSE 1, yfit, errs))
    IN IF at.pc = "bc_trunc" \/ o.raised THEN [xt |-> xt, yfit |-> yfit, errs |-> errs]
       ELSE CHOOSE r \in {BackLoop(a, u.xt, u.yfit, u.errs, u.at) :
                           u \in {o @@ [at |-> Seek(at.j, at.pc, IF fwd THEN at.i + 1 ELSE at.i - 1)]}} : TRUE

\* the fitted values and residuals ssfitterbackcast returns, and the extended
\* state history before its truncation
ssfitterbackcast(a) ==
    BackLoop(a, Resize(a.matrixxt, Len(a.lags), NElem(a.matrixxt) \div Len(a.lags),
                       (NElem(a.matrixxt) \div Len(a.lags)) + SeqMax(a.lags)),
             ZeroVec(Len(a.matyt)), ZeroVec(Len(a.matyt)), Seek(0, "cycle", 0))

\* ssforecaster's loop (lines 201-205) from row r of the buffer, for the
\* measurement, exogenous and transition matrices fa and horizon h
RECURSIVE ForecastLoop(_, _, _, _, _, _)
ForecastLoop(fa, lagsIn, h, buf, yfor, r) ==
    LET m == SeqMax(lagsIn)
        lr == LagRows(lagsIn, h + m, r)
    IN IF r >= h + m \/ ~GatherOK(buf, lr) THEN yfor
       ELSE CHOOSE res \in
              {ForecastLoop(fa, lagsIn, h, nb,
                            [yfor EXCEPT ![r - m + 1] = Fitted(fa, Gather(nb, lr), r - m)], r + 1) :
                 nb \in {SetRow(buf, h + m, r, MatVec(fa.matrixF, Gather(buf, lr)))}} : TRUE

\* the forecasts ssforecaster returns for the seed rows seedxt (lines 179-208)
ssforecaster(seedxt, fa, lagsIn, h) ==
    ForecastLoop(fa, lagsIn, h,
                 SeedBuffer(seedxt, Len(lagsIn), SeqMax(lagsIn), h + SeqMax(lagsIn)),
                 ZeroVec(h), SeqMax(lagsIn))

\* ssoptimizer's result for the one-step losses (lines 286-297, 327-340)
ssoptimizerOneStep(a) ==
    OneStepLoss(a.CFtype, IF a.backcasting THEN ssfitterbackcast(a).errs ELSE ssfitter(a).errs)

(***************************************************************************)
(* Calls of ssoptimizer, with finite arguments: the multi-step losses for   *)
(* every horizon 1..obs, the one-step losses and unrecognised strings for  *)
(* horizons up to obs + 1, and calls with backcasting for horizons 1, obs. *)
(***************************************************************************)
OptProfiles ==
    {[F |-> "I", w |-> "ramp", v |-> "zero", g |-> "e1", y |-> "ramp", x |-> "on"],
     [F |-> "U", w |-> "ramp", v |-> "ones", g |-> "e1", y |-> "ramp", x |-> "none"]}

OptBase == [F |-> "U", w |-> "unit", v |-> "ones", g |-> "e1", y |-> "ramp", x |-> "on"]

Loss(c, h, b) == [hor |-> h, CFtype |-> c, backcasting |-> b, normalize |-> Int2D(2)]

OtherStrings == {"", "mse", "Hsteps", "likelihood"}

InitOpt ==
    \/ \E l \in LagSets, n \in 1..MaxObs, pr \in OptProfiles, c \in MultiStep, h \in 1..MaxObs :
         /\ h <= n
         /\ Start("ssoptimizer",
                  MkArgs(l, n, pr @@ Loss(c, h, FALSE), MkXt(Len(l), n + SeqMax(l), "ramp", -1, NaN)))
    \/ \E l \in LagSets, n \in 1..MaxObs, c \in {"MSE", "MAE"} \cup OtherStrings, h \in 1..(MaxObs + 1) :
         /\ h <= n + 1
         /\ Start("ssoptimizer",
                  MkArgs(l, n, OptBase @@ Loss(c, h, FALSE), MkXt(Len(l), n + SeqMax(l), "ramp", -1, NaN)))
    \/ \E l \in LagSets, n \in 1..MaxObs, c \in {"TV", "mse"}, h \in 1..MaxObs :
         /\ h \in {1, n}
         /\ Start("ssoptimizer",
                  MkArgs(l, n, OptBase @@ Loss(c, h, TRUE), MkXt(Len(l), n + SeqMax(l), "ramp", -1, NaN)))

NextOpt ==
    \/ OptEnter \/ FitEnter \/ FitIter \/ FitReturn
    \/ BackEnter \/ BackFwd \/ BackTail \/ BackBack \/ BackHead \/ BackTruncate
    \/ OptOneStep \/ ErrEnter \/ ErrCall \/ FcIter \/ FcReturn \/ ErrReturn \/ OptMultiStep

SpecOpt == InitOpt /\ [][NextOpt]_vars

(***************************************************************************)
(* Calls of sserrorer on a state history, for every horizon 1..obs, and    *)
(* with a non-finite first entry of the state history for horizon obs.     *)
(***************************************************************************)
InitErr ==
    \/ \E l \in LagSets, n \in 1..MaxObs, pr \in OptProfiles, h \in 1..MaxObs :
         /\ h <= n
         /\ Start("sserrorer",
                  MkArgs(l, n, pr @@ Loss("", h, FALSE), MkXt(Len(l), n + SeqMax(l), "ramp", -1, NaN)))
    \/ \E l \in LagSets, n \in 1..MaxObs, badv \in {NaN, PInf} :
         Start("sserrorer",
               MkArgs(l, n, OptBase @@ Loss("", n, FALSE), MkXt(Len(l), n + SeqMax(l), "ramp", 0, badv)))

NextErr == ErrEnter \/ ErrCall \/ FcIter \/ FcReturn \/ ErrReturn

SpecErr == InitErr /\ [][NextErr]_vars

NextFit == FitEnter \/ FitIter \/ FitReturn

SpecFit == InitFit /\ [][NextFit]_vars

(***************************************************************************)
(* Claims about ssfitter                                                   *)
(***************************************************************************)
Returned == pc = "done"

IsScenario ==
    /\ entry = "ssfitter"
    /\ args.matyt = [t \in 1..ScenarioObs |-> Int2D(ScenarioSeries[t])]
    /\ args = MkArgs(<<1>>, ScenarioObs, ScenarioProfile, MkXt(1, ScenarioObs + 1, "zero", -1, NaN))

Decimals(s, den) == [q \in 1..Len(s) |-> Fin(s[q], den)]

\* C2, as stated: in the scalar scenario (lag 1, transition 1, measurement 1,
\* persistence 0.3, scale 1, observed 1..5, initial state 0) the filter returns
\* fitted = [0, 1, 1.7, 2.59, 3.613] and residuals = [1, 1, 1.3, 1.41, 1.387].
C2_ScenarioAsStated ==
    (IsScenario /\ Returned) =>
        /\ matyfit = Decimals(<<0, 1000, 1700, 2590, 3613>>, 1000)
        /\ materrors = Decimals(<<1000, 1000, 1300, 1410, 1387>>, 1000)

\* C2, amended: in the scalar scenario the filter returns
\* fitted = [0, 0.3, 0.81, 1.467, 2.2269] and
\* residuals = [1, 1.7, 2.19, 2.533, 2.7731], the values of the recurrence
\* state[t+1] = state[t] + 0.3 * residual[t], fitted[t] = state[t].
C2_ScenarioRecurrence ==
    (IsScenario /\ Returned) =>
        /\ matyfit = Decimals(<<0, 3000, 8100, 14670, 22269>>, 10000)
        /\ materrors = Decimals(<<10000, 17000, 21900, 25330, 27731>>, 10000)

C2_Witness == IsScenario /\ Returned /\ materrors[ScenarioObs] = Fin(27731, 10000)

\* C7, as stated: the filter raises no error for non-finite inputs: the call
\* never ends in an exception, the substitution step never reads a position
\* outside the state array, and at return no state entry is non-finite.
C7_NoErrorOnNonfinite ==
    entry = "ssfitter" =>
        /\ pc # "raised"
        /\ ~oobRead
        /\ (Returned => FindNonfinite(matrixxt) = {})

\* a call whose state history holds NaN at flattened position 0 and ends in
\* the exception of the bounds check
C7_Witness ==
    /\ entry = "ssfitter" /\ pc = "raised"
    /\ ~IsFinite(args.matrixxt[0])
    /\ \A p \in 1..(NElem(args.matrixxt) - 1) : IsFinite(args.matrixxt[p])

NaiveSetting ==
    /\ entry = "ssfitter"
    /\ \A q \in 1..K : args.lags[q] = 1
    /\ args.matrixF = MkF(K, "I")
    /\ args.matrixw = MkW(K, obs, "unit")
    /\ args.matg = MkG(K, "0")

\* C9, as stated: with all lags 1, identity transition, unit measurement and
\* zero persistence the filter returns fitted[t] = observed[t-1] for t >= 1.
C9_NaiveAsStated ==
    (NaiveSetting /\ Returned) =>
        \A t \in 2..obs : matyfit[t] = args.matyt[t - 1]

\* C9, amended: with a finite state history, all lags 1, identity transition,
\* unit measurement and zero persistence, the state receives no contribution
\* from the residuals (every row of the returned history equals the pre-sample
\* row 0) and fitted[t] is, for every t, the sum of the pre-sample state
\* components plus the exogenous term of period t.
C9_ConstantState ==
    (NaiveSetting /\ FindNonfinite(args.matrixxt) = {} /\ Returned) =>
        /\ \A r \in 0..(nrows - 1), q \in 0..(K - 1) :
              At(matrixxt, nrows, r, q) = At(args.matrixxt, nrows, 0, q)
        /\ \A t \in 1..obs :
              matyfit[t] = DAdd(DSum([q \in 1..K |-> At(args.matrixxt, nrows, 0, q - 1)]),
                                DMul(args.wex[t][1], args.xtreg[t][1]))

C9_Witness ==
    /\ NaiveSetting /\ FindNonfinite(args.matrixxt) = {} /\ Returned
    /\ obs >= 3 /\ K >= 2
    /\ matyfit[3] # args.matyt[2]
    /\ materrors[3] # Zero

(***************************************************************************)
(* Claims about ssfitterbackcast                                           *)
(***************************************************************************)
\* C5, as stated: the truncation at the end of ssfitterbackcast returns obsall
\* rows and entry [r][k] of the returned history is entry [r][k] of the
\* extended working state as it stood at the end of the 4th cycle.
C5_TruncationPreserves ==
    [][(pc = "bc_trunc" /\ pc' # pc) =>
          /\ nrows' = obsall
          /\ \A r \in 0..(obsall - 1), q \in 0..(K - 1) :
                At(matrixxt', obsall, r, q) = At(matrixxt, obsallnew, r, q)]_vars

\* a returned history of two components whose entry [0][1] is not the entry
\* [0][1] of the extended history (ssfitterbackcast(args).xt) it was cut from
C5_Witness ==
    /\ entry = "ssfitterbackcast" /\ Returned /\ K = 2
    /\ FindNonfinite(args.matrixxt) = {}
    /\ At(matrixxt, obsall, 0, 1) # At(ssfitterbackcast(args).xt, obsallnew, 0, 1)
    /\ At(matrixxt, obsall, 0, 1) = ssfitterbackcast(args).xt[obsall]

Up(a, b) == [q \in 1..(IF b >= a THEN b - a + 1 ELSE 0) |-> a + q - 1]
Down(a, b) == [q \in 1..(IF a >= b THEN a - b + 1 ELSE 0) |-> a - q + 1]
Tagged(c, pass, rows) == [q \in 1..Len(rows) |-> <<c, pass, rows[q]>>]

\* the rows cycle c (0-based) is said to visit
ClaimedCycle(c) ==
    Tagged(c, "bc_fwd", Up(maxlag, obsall - 1))
        \o Tagged(c, "bc_tail", Up(obsall, obsall + maxlag - 1))
        \o (IF c < 3
            THEN Tagged(c, "bc_back", Down(obsall - 1, maxlag))
                     \o Tagged(c, "bc_head", Down(maxlag - 1, 0))
            ELSE <<>>)

ClaimedPasses == ClaimedCycle(0) \o ClaimedCycle(1) \o ClaimedCycle(2) \o ClaimedCycle(3)

IsPrefix(s, u) == Len(s) <= Len(u) /\ SubSeq(u, 1, Len(s)) = s

\* C6, as stated: for every input with all lags >= 1 the backcast runs exactly
\* the pass sequence forward filter, forward propagation, backward filter,
\* backward propagation in cycles 1-3 and forward filter, forward propagation
\* in cycle 4, with no early exit and no 5th cycle.
C6_PassSequence ==
    entry = "ssfitterbackcast" =>
        /\ pc # "raised"
        /\ IsPrefix(passlog, ClaimedPasses)
        /\ (Returned => passlog = ClaimedPasses)

\* a call that left the first forward pass of cycle 1 by an exception
C6_Witness ==
    /\ entry = "ssfitterbackcast" /\ pc = "raised"
    /\ j = 0 /\ Len(passlog) <= 1

\* the same for the calls whose state history is finite
C6_PassSequenceFinite ==
    (entry = "ssfitterbackcast" /\ FindNonfinite(args.matrixxt) = {}) =>
        /\ pc # "raised"
        /\ IsPrefix(passlog, ClaimedPasses)
        /\ (Returned => passlog = ClaimedPasses)

(***************************************************************************)
(* Claims about the lag index, sserrorer and ssoptimizer                   *)
(***************************************************************************)
\* C1: for every lag set with lags >= 1, every row count R and every row i
\* with maxlag <= i < R, the position ssfitter and ssforecaster compute for
\* component k (0-based) is k * R + (i - lag_k), although the intermediate
\* lags - maxlag wraps around in unsigned arithmetic.
C1_LagIndex ==
    [][/\ (pc = "fit" /\ i < nrows) =>
            \A q \in 1..K : lagrows'[q] = UW((q - 1) * nrows + (i - args.lags[q]))
       /\ (pc = "fc" /\ fi < hh + maxlag) =>
            \A q \in 1..K : lagrows'[q] = UW((q - 1) * (hh + maxlag) + (fi - args.lags[q]))]_vars

\* a forecaster step on two components whose intermediate lags - maxlag wrapped
C1_Witness ==
    /\ pc = "fc" /\ fi > maxlag /\ K >= 2
    /\ args.lags[1] # args.lags[2]
    /\ \A q \in 1..K : lagrows[q] = UW((q - 1) * (hh + maxlag) + (fi - 1 - args.lags[q]))
    /\ LagMinusMax(args.lags, hh + maxlag)[1][1] = Limb - 1

FilterThenErrorer ==
    /\ entry = "ssoptimizer" /\ ~args.backcasting
    /\ LossBranch(args.CFtype) \in MultiStep

\* the periods whose row sserrorer has stored
StoredRows ==
    IF pc \in {"err", "fc"} THEN 1..(i - maxlag)
    ELSE IF pc \in {"opt_cost", "done"} THEN 1..obs ELSE {}

\* C3: with finite inputs, sserrorer with horizon 1 run on the state history
\* ssfitter returned gives errorMatrix[t, 0] = the filter's residual[t] for
\* every period t.
C3_RoundTrip ==
    (FilterThenErrorer /\ args.hor = 1) =>
        \A t \in StoredRows : errmatrix[t][1] = materrors[t]

C3_Witness ==
    /\ FilterThenErrorer /\ args.hor = 1 /\ Returned
    /\ obs >= 3 /\ K >= 2
    /\ errmatrix[3][1] = materrors[3]
    /\ materrors[3] # Zero /\ IsFinite(materrors[3])

IsSentinel(x) == x.k = "na"

\* C4: for 1 <= horizon <= obs the matrix sserrorer returns has obs rows and
\* horizon columns; row t holds non-sentinel values in exactly its first
\* min(horizon, obs - t) columns; exactly the rows 0..obs-horizon are full.
C4_RaggedMatrix ==
    (errorerCalls > 0 /\ pc \in {"opt_cost", "done"}) =>
        /\ Len(errmatrix) = obs
        /\ \A t \in 0..(obs - 1) :
              /\ Len(errmatrix[t + 1]) = args.hor
              /\ \A h \in 1..args.hor :
                    IsSentinel(errmatrix[t + 1][h]) <=> h > Min(args.hor, obs - t)
        /\ {t \in 0..(obs - 1) : \A h \in 1..args.hor : ~IsSentinel(errmatrix[t + 1][h])}
              = 0..(obs - args.hor)

C4_Witness ==
    /\ errorerCalls > 0 /\ Returned
    /\ args.hor = 2 /\ obs = 3
    /\ ~IsSentinel(errmatrix[2][2]) /\ ~IsSentinel(errmatrix[3][1]) /\ IsSentinel(errmatrix[3][2])

Recognised == {"GV", "TLV", "TV", "hsteps", "MSE", "MAE"}

\* C8: for every lossKind string other than GV, TLV, TV, hsteps, MSE, MAE
\* the selector returns mean(sqrt(|residual|)) of the fit's one-step
\* residuals, does not fail and does not call sserrorer; and the MSE, MAE and
\* fallback results are the same for every horizon: the call with horizon h
\* returns what the call with horizon 1 and the same other arguments returns.
C8_Fallback ==
    /\ (entry = "ssoptimizer" /\ args.CFtype \notin Recognised) =>
          /\ pc # "raised"
          /\ errorerCalls = 0
          /\ Returned =>
                CFres = [form |-> "mean_sqrt", of |-> [q \in 1..obs |-> DAbs(materrors[q])]]
    /\ (entry = "ssoptimizer" /\ args.CFtype \notin MultiStep /\ Returned) =>
          CFres = ssoptimizerOneStep([args EXCEPT !.hor = 1])

C8_Witness ==
    /\ entry = "ssoptimizer" /\ args.CFtype = "mse" /\ Returned
    /\ args.hor = 2 /\ obs >= 2
    /\ CFres.form = "mean_sqrt" /\ CFres.of[2] # Zero

\* C10, as stated: for every lossKind other than GV ssoptimizer never changes
\* the library's error stream, and after any call the stream is the one that
\* was installed before the call.
C10_StreamUntouched ==
    entry = "ssoptimizer" =>
        /\ (args.CFtype # "GV" => stream_err2 = "default")
        /\ (Returned => stream_err2 = "default")

\* a returned MSE call that left the error stream redirected
C10_Witness ==
    /\ entry = "ssoptimizer" /\ Returned /\ args.CFtype = "MSE"
    /\ stream_err2 # "default"

(***************************************************************************)
(* Claims about the filter's substitution and period index                 *)
(***************************************************************************)
\* the row the filter computes at row i, before the substitution (line 39)
ComputedRow ==
    LET x == Gather(matrixxt, LagRows(args.lags, nrows, i))
        t == i - maxlag
    IN NewStateRow(args, x, t, DSub(args.matyt[t + 1], Fitted(args, x, t)))

\* C11: if the state history passed to ssfitter is finite then, whatever
\* non-finite values the other inputs hold, every step i of the loop leaves a
\* finite state history: an entry of row i computed as non-finite holds the
\* value of the same component at row i - 1, the other entries of row i hold
\* the computed values and no other row is changed.
C11_FiniteStays ==
    [][(/\ entry = "ssfitter" /\ FindNonfinite(args.matrixxt) = {}
        /\ pc = "fit" /\ i < nrows /\ i - maxlag < obs) =>
          /\ pc' = "fit" /\ ~oobRead'
          /\ FindNonfinite(matrixxt') = {}
          /\ \A r \in 0..(nrows - 1), q \in 0..(K - 1) :
                At(matrixxt', nrows, r, q) =
                    IF r # i THEN At(matrixxt, nrows, r, q)
                    ELSE IF IsFinite(ComputedRow[q + 1]) THEN ComputedRow[q + 1]
                    ELSE At(matrixxt, nrows, i - 1, q)]_vars

\* after the step of period 0 with a NaN measurement: every entry of row
\* maxlag was computed as NaN and holds the value of row maxlag - 1
C11_Witness ==
    /\ entry = "ssfitter" /\ FindNonfinite(args.matrixxt) = {}
    /\ pc = "fit" /\ i = maxlag + 1 /\ K >= 2
    /\ ~IsFinite(args.matrixw[1][1])
    /\ FindNonfinite(matrixxt) = {}
    /\ \A q \in 0..(K - 1) :
          At(matrixxt, nrows, maxlag, q) = At(args.matrixxt, nrows, maxlag - 1, q)

C12_PeriodInRangeExact ==
    (entry = "ssfitter" /\ nrows = obs + maxlag) =>
        /\ (pc = "fit" /\ i < nrows) => (0 <= i - maxlag /\ i - maxlag < obs)
        /\ Len(matyfit) = obs /\ Len(materrors) = obs

Kept(M, S) ==
    [r \in 1..Len(M) |-> [c \in 1..Len(M[r]) |->
        IF <<r - 1, c - 1>> \in S THEN M[r][c] ELSE Zero]]

\* C13: for 1 <= horizon <= obs every error-matrix entry a multi-step loss
\* reads is non-sentinel: the loss is computed from the entries LossReads
\* names and from no other, none of them is the sentinel, and for TLV and TV
\* the rows read of column h are [0, obs - h), all and only the populated rows
\* of that column.
C13_LossReadsPopulated ==
    (entry = "ssoptimizer" /\ pc = "opt_cost" /\ 1 <= args.hor /\ args.hor <= obs) =>
        LET S == LossReads(args.CFtype, obs, args.hor)
        IN /\ \A e \in S : ~IsSentinel(errmatrix[e[1] + 1][e[2] + 1])
           /\ \A eigOK \in BOOLEAN :
                 MultiStepLoss(args.CFtype, errmatrix, obs, args.hor, args.normalize, eigOK)
                   = MultiStepLoss(args.CFtype, Kept(errmatrix, S), obs, args.hor, args.normalize, eigOK)
           /\ args.CFtype \in {"TLV", "TV"} =>
                 \A h \in 0..(args.hor - 1) :
                    /\ {e[1] : e \in {u \in S : u[2] = h}} = 0..(obs - h - 1)
                    /\ {r \in 0..(obs - 1) : ~IsSentinel(errmatrix[r + 1][h + 1])} = 0..(obs - h - 1)
           /\ args.CFtype = "hsteps" => S = (0..(obs - args.hor)) \X {args.hor - 1}
           /\ args.CFtype = "GV" => S = (0..(obs - args.hor)) \X (0..(args.hor - 1))

\* a TLV call with horizon 2: the last row of column 1 holds the sentinel and
\* is not read, the row before it is populated and read
C13_Witness ==
    /\ entry = "ssoptimizer" /\ pc = "opt_cost" /\ args.CFtype = "TLV"
    /\ args.hor = 2 /\ obs >= 3
    /\ IsSentinel(errmatrix[obs][2]) /\ <<obs - 1, 1>> \notin LossReads(args.CFtype, obs, args.hor)
    /\ ~IsSentinel(errmatrix[obs - 1][2]) /\ <<obs - 2, 1>> \in LossReads(args.CFtype, obs, args.hor)

(***************************************************************************)
(* Claims about the last cycle and the backward gather of ssfitterbackcast *)
(***************************************************************************)
\* a history of obsall rows holding the pre-sample rows [0, maxlag) of the
\* extended history xt and zeros below them
PreSampleOnly(xt) ==
    [p \in 0..(K * obsall - 1) |->
        IF p % obsall < maxlag THEN At(xt, obsallnew, p % obsall, p \div obsall) ELSE Zero]

\* the last step recorded in the log that wrote row r
LastWriter(log, r) ==
    log[CHOOSE n \in 1..Len(log) :
            log[n][3] = r /\ \A m \in (n + 1)..Len(log) : log[m][3] # r]

\* C14: with finite inputs no step of the 4th cycle changes the pre-sample
\* rows [0, maxlag); at the end of the last cycle their last writer is the
\* backward propagation of cycle 3, and the fitted values and residuals are
\* those of a forward filter pass computed from these rows.
C14_LastCycleKeepsHead ==
    [][(entry = "ssfitterbackcast" /\ FindNonfinite(args.matrixxt) = {}) =>
          /\ (j = NCycles - 1 /\ pc \in {"bc_fwd", "bc_tail"}) =>
                /\ pc' # "raised" /\ oobRead' = FALSE
                /\ \A r \in 0..(maxlag - 1), q \in 0..(K - 1) :
                      At(matrixxt', obsallnew, r, q) = At(matrixxt, obsallnew, r, q)
          /\ (pc # "bc_trunc" /\ pc' = "bc_trunc") =>
                /\ \A r \in 0..(maxlag - 1) :
                      LastWriter(passlog', r) = <<BackCycles - 1, "bc_head", r>>
                /\ LET fit == FitLoop(args, PreSampleOnly(matrixxt'), ZeroVec(obs), ZeroVec(obs), maxlag)
                   IN matyfit' = fit.yfit /\ materrors' = fit.errs]_vars

\* the end of the 4th cycle of a call with two components and three
\* observations whose pre-sample row 0 was rewritten by the backcast
C14_Witness ==
    /\ entry = "ssfitterbackcast" /\ FindNonfinite(args.matrixxt) = {}
    /\ pc = "bc_trunc" /\ j = NCycles
    /\ K >= 2 /\ obs >= 3
    /\ At(matrixxt, obsallnew, 0, 0) # args.matrixxt[0]
    /\ materrors[obs] # Zero

\* the extended history after the row assignment of a backward step at row i
\* (lines 134, 141), before its substitution
BackComputed ==
    LET x == Gather(matrixxt, BackLagRows(args.lags, nrows, obsall, i))
        t == i - maxlag
    IN SetRow(matrixxt, nrows, i,
              IF pc = "bc_back"
              THEN NewStateRow(args, x, t, DSub(args.matyt[t + 1], Fitted(args, x, t)))
              ELSE MatVec(args.matrixF, x))

\* what C15 says of one step of a backward loop
BackwardStepInColumn ==
    /\ \A q \in 1..K :
          /\ lagrows'[q] = UW((q - 1) * obsallnew + i + args.lags[q])
          /\ i < i + args.lags[q] /\ i + args.lags[q] <= obsall + maxlag - 1
    /\ pc' # "raised" /\ oobRead' = oobRead
    /\ \A p \in FindNonfinite(BackComputed) :
          p + 1 < NElem(matrixxt) /\ (p + 1) \div obsallnew = p \div obsallnew
    /\ matrixxt' = [p \in DOMAIN matrixxt |->
                      IF IsFinite(BackComputed[p]) THEN BackComputed[p]
                      ELSE BackComputed[p + 1]]

\* C15, as stated: in both backward loops the entry gathered for component k
\* at row i is state[i + lag_k][k] of the extended array, with
\* i < i + lag_k <= obsall + maxlag - 1; the step does not raise or read
\* outside the array, and every non-finite entry is replaced by the entry at
\* the next position, which lies in the same column.
C15_BackwardGather ==
    [][(entry = "ssfitterbackcast" /\ pc \in {"bc_back", "bc_head"}) =>
          BackwardStepInColumn]_vars

\* the same for the calls whose state history is finite
C15_BackwardGatherFinite ==
    [][(/\ entry = "ssfitterbackcast" /\ pc \in {"bc_back", "bc_head"}
        /\ FindNonfinite(args.matrixxt) = {}) =>
          BackwardStepInColumn]_vars

\* a call whose state history holds NaN only at row 0 of the second
\* component: the forward passes ran without a read outside the array, and the
\* first backward filter step ended in the exception of the bounds check
C15_Witness ==
    /\ entry = "ssfitterbackcast" /\ pc = "raised" /\ ~oobRead
    /\ K = 2 /\ IsFinite(args.matrixxt[0])
    /\ FindNonfinite(args.matrixxt) = {obsall}
    /\ passlog # <<>> /\ passlog[Len(passlog)] = <<0, "bc_back", obsall - 1>>
    /\ \A q \in 1..K : lagrows[q] = UW((q - 1) * obsallnew + obsall - 1 + args.lags[q])

(***************************************************************************)
(* Claims about the forecaster's horizon                                   *)
(***************************************************************************)
\* measurement and exogenous rows for a forecast of h steps from period t,
\* the rows past the end of the sample taken from period r0
ForecastArgsPadded(a, t, h, r0) ==
    LET Row(M, r) == IF t + r <= Len(M) THEN M[t + r] ELSE M[r0 + 1]
    IN [matrixF |-> a.matrixF,
        matrixw |-> [r \in 1..h |-> Row(a.matrixw, r)],
        wex |-> [r \in 1..h |-> Row(a.wex, r)],
        xtreg |-> [r \in 1..h |-> Row(a.xtreg, r)]]

\* C16: when a call of ssforecaster with horizon hh returns, its first h1
\* forecasts are the forecasts of the call with horizon h1 from the same seed
\* rows, transition and lags on the first h1 measurement and exogenous rows,
\* for every h1 <= hh; and the errors sserrorer stores in the row, truncated
\* or not, are in those columns the errors of a forecast over the whole
\* horizon from that origin, whatever rows it is given past the sample's end.
C16_PrefixConsistent ==
    [][(pc = "fc" /\ fi >= hh + maxlag) =>
          LET t == i - maxlag
              seed == XtRows(matrixxt, K, nrows, t, i - 1)
          IN /\ \A h1 \in 1..hh :
                   ssforecaster(seed, ForecastArgs(args, t, h1), args.lags, h1)
                     = SubSeq(matyfor, 1, h1)
             /\ hh < args.hor => \A r0 \in {0, obs - 1} :
                   LET full == ssforecaster(seed, ForecastArgsPadded(args, t, args.hor, r0),
                                            args.lags, args.hor)
                   IN \A h \in 1..hh :
                         /\ full[h] = matyfor[h]
                         /\ errmatrix'[t + 1][h] = DSub(args.matyt[t + h], full[h])]_vars

\* the call for the last origin of a two-component model has returned two
\* steps short of the horizon, its forecast not zero, and the row is stored
C16_Witness ==
    /\ pc = "err" /\ i = obs + maxlag /\ hh = 1 /\ args.hor = 3 /\ K >= 2
    /\ args.lags[1] # args.lags[2]
    /\ matyfor[1] # Zero /\ IsFinite(matyfor[1])
    /\ errmatrix[obs][1] = DSub(args.matyt[obs], matyfor[1])
    /\ IsSentinel(errmatrix[obs][2])

====
